---- MODULE Spec2Model ----
(***************************************************************************)
(* Model of src/main.py: HEBGraphQLClient (query construction, the POST,   *)
(* response projection) and main().                                        *)
(*                                                                         *)
(* JSON values are tagged records; Python's subscript, len, `in`,          *)
(* truthiness and exception propagation are modelled explicitly, so that   *)
(* a KeyError or a TypeError raised by a field access is a visible         *)
(* outcome.  Strings are TLA+ strings, read character by character.        *)
(***************************************************************************)
EXTENDS Integers, Sequences, FiniteSets, TLC

VARIABLES
    entry,              \* the entry point that was invoked
    pc,                 \* position in the invoked code
    args,               \* keyword arguments of the client call
    posts,              \* payloads POSTed so far, in order
    responses,          \* (status, text) of every response received, in order
    category_response,  \* main's local category_response / process_products' data
    store_response,     \* main's local store_response / process_stores' data
    stdout,             \* lines printed so far
    files,              \* file name -> JSON document written
    reads,              \* subscript operations evaluated by the projectors
    exc                 \* the exception raised (and, in main, caught at line 288)

vars == <<entry, pc, args, posts, responses, category_response, store_response,
          stdout, files, reads, exc>>

(***************************************************************************)
(* Bounds of the model.                                                    *)
(***************************************************************************)
MaxRecords == 2       \* longest records / stores list given to a projector
MaxMainItems == 2     \* longest records / stores list in a run of main
MaxChannels == 2      \* longest fulfillment_channels list passed to the client

(***************************************************************************)
(* JSON values, as json.loads / response.json() produce them.              *)
(***************************************************************************)
JNull == [t |-> "null"]
JStr(s) == [t |-> "str", s |-> s]
JBool(b) == [t |-> "bool", b |-> b]
JNum(n) == [t |-> "num", n |-> n]
JList(e) == [t |-> "list", e |-> e]
JObj(f) == [t |-> "obj", f |-> f]

\* Marks a key left out of an object under construction; never a JSON value.
Absent == [t |-> "absent"]

\* The object with the fields of record r whose value is not Absent.
ObjOf(r) ==
    LET keys == {k \in DOMAIN r : r[k] # Absent}
    IN  JObj([k \in keys |-> r[k]])

\* The object o with key k set to value v, or removed when v is Absent.
With(o, k, v) ==
    LET keys == IF v = Absent THEN DOMAIN o.f \ {k} ELSE DOMAIN o.f \cup {k}
    IN  JObj([x \in keys |-> IF x = k THEN v ELSE o.f[x]])

(***************************************************************************)
(* Python evaluation.  An expression evaluates to a result: a value, or    *)
(* the exception it raised with the source line that raised it; n counts   *)
(* the subscript operations evaluated on the way.                          *)
(***************************************************************************)
NoExc == [type |-> "none", arg |-> "", line |-> 0]
Exc(type, arg, line) == [type |-> type, arg |-> arg, line |-> line]

Ok(v) == [ok |-> TRUE, v |-> v, exc |-> NoExc, n |-> 0]
Raise(e, n) == [ok |-> FALSE, v |-> JNull, exc |-> e, n |-> n]

\* r[k] for a string key k (dict subscript).
Idx(r, k, line) ==
    IF ~r.ok THEN r
    ELSE IF r.v.t = "obj"
         THEN IF k \in DOMAIN r.v.f
              THEN [ok |-> TRUE, v |-> r.v.f[k], exc |-> NoExc, n |-> r.n + 1]
              ELSE Raise(Exc("KeyError", k, line), r.n + 1)
         ELSE Raise(Exc("TypeError", k, line), r.n + 1)

\* r[0] (first element of a list).
First(r, line) ==
    IF ~r.ok THEN r
    ELSE IF r.v.t = "list"
         THEN IF Len(r.v.e) > 0
              THEN [ok |-> TRUE, v |-> r.v.e[1], exc |-> NoExc, n |-> r.n + 1]
              ELSE Raise(Exc("IndexError", "0", line), r.n + 1)
         ELSE IF r.v.t = "obj"
              THEN Raise(Exc("KeyError", "0", line), r.n + 1)
              ELSE Raise(Exc("TypeError", "0", line), r.n + 1)

\* bool(v)
Truthy(v) ==
    CASE v.t = "null" -> FALSE
      [] v.t = "bool" -> v.b
      [] v.t = "num"  -> v.n # 0
      [] v.t = "str"  -> v.s # ""
      [] v.t = "list" -> Len(v.e) > 0
      [] v.t = "obj"  -> DOMAIN v.f # {}

\* len(r) > 0
LenPositive(r, line) ==
    IF ~r.ok THEN r
    ELSE CASE r.v.t = "list" -> [r EXCEPT !.v = JBool(Len(r.v.e) > 0)]
           [] r.v.t = "obj"  -> [r EXCEPT !.v = JBool(DOMAIN r.v.f # {})]
           [] r.v.t = "str"  -> [r EXCEPT !.v = JBool(r.v.s # "")]
           [] OTHER          -> Raise(Exc("TypeError", "len", line), r.n)

\* k in r  (dict membership; a list or a string holds no such key here)
HasKey(r, k, line) ==
    IF ~r.ok THEN r
    ELSE CASE r.v.t = "obj"  -> [r EXCEPT !.v = JBool(k \in DOMAIN r.v.f)]
           [] r.v.t = "list" -> [r EXCEPT !.v = JBool(\E i \in DOMAIN r.v.e : r.v.e[i] = JStr(k))]
           [] r.v.t = "str"  -> [r EXCEPT !.v = JBool(FALSE)]
           [] OTHER          -> Raise(Exc("TypeError", "in", line), r.n)

\* a and b, with Python's short circuit: b is evaluated only when a is truthy.
PyAnd(a, b) ==
    IF ~a.ok THEN a
    ELSE IF ~Truthy(a.v) THEN a
    ELSE IF ~b.ok THEN Raise(b.exc, a.n + b.n)
    ELSE [b EXCEPT !.n = a.n + b.n]

\* str(v), as an f-string renders a value.
PyStr(v) ==
    CASE v.t = "null" -> "None"
      [] v.t = "bool" -> IF v.b THEN "True" ELSE "False"
      [] v.t = "num"  -> ToString(v.n)
      [] v.t = "str"  -> v.s
      [] v.t = "list" -> "[...]"
      [] v.t = "obj"  -> "{...}"

(***************************************************************************)
(* Execution of a function body.  A run is the lines printed so far, the   *)
(* exception that ended it (if any), and the subscripts evaluated.         *)
(***************************************************************************)
Start == [out |-> <<>>, exc |-> NoExc, reads |-> 0, returned |-> FALSE]

Halted(s) == s.exc # NoExc \/ s.returned

\* Index of the first result of rs that raised, 0 when none did.
FirstFailure(rs) ==
    IF \E i \in DOMAIN rs : ~rs[i].ok
    THEN CHOOSE i \in DOMAIN rs : ~rs[i].ok /\ \A j \in 1..(i - 1) : rs[j].ok
    ELSE 0

RECURSIVE SumReads(_, _)
SumReads(rs, upto) ==
    IF upto = 0 THEN 0 ELSE rs[upto].n + SumReads(rs, upto - 1)

\* print(f"label: {rs[1]} {rs[2]} ..."): the fields are evaluated left to right.
Emit(s, label, rs) ==
    IF Halted(s) THEN s
    ELSE LET bad == FirstFailure(rs)
         IN  IF bad # 0
             THEN [s EXCEPT !.exc = rs[bad].exc, !.reads = @ + SumReads(rs, bad)]
             ELSE [s EXCEPT !.out = Append(@, [label |-> label,
                                               text |-> [i \in DOMAIN rs |-> PyStr(rs[i].v)]]),
                            !.reads = @ + SumReads(rs, Len(rs))]

\* x = <expression>: the statement raises when the expression does.
Eval(s, r) ==
    IF Halted(s) THEN s
    ELSE IF r.ok THEN [s EXCEPT !.reads = @ + r.n]
    ELSE [s EXCEPT !.exc = r.exc, !.reads = @ + r.n]

\* return
Return(s) == IF Halted(s) THEN s ELSE [s EXCEPT !.returned = TRUE]

\* if <condition>: the test raises when the condition does; the branch is taken
\* when the run is still going and the condition is truthy.
Taken(s, cond) == ~Halted(s) /\ cond.ok /\ Truthy(cond.v)

\* len(r), as a number.
PyLen(r, line) ==
    IF ~r.ok THEN r
    ELSE CASE r.v.t = "list" -> [r EXCEPT !.v = JNum(Len(r.v.e))]
           [] r.v.t = "obj"  -> [r EXCEPT !.v = JNum(Cardinality(DOMAIN r.v.f))]
           [] r.v.t = "str"  -> [r EXCEPT !.v = JNum(Len(r.v.s))]
           [] OTHER          -> Raise(Exc("TypeError", "len", line), r.n)

\* for x in r: the items iterated.  A list yields its elements and a string its
\* characters; None, a number or a boolean is not iterable.  (A dict would yield
\* its keys in insertion order, which a JObj does not keep; no input of the
\* model puts a dict where the code iterates.)
Iter(r, line) ==
    IF ~r.ok THEN r
    ELSE CASE r.v.t = "list" -> r
           [] r.v.t = "str"  -> [r EXCEPT !.v = JList([i \in 1..Len(r.v.s) |->
                                                       JStr(SubSeq(r.v.s, i, i))])]
           [] OTHER          -> Raise(Exc("TypeError", "iter", line), r.n)

\* r.get(k)
Get(r, k, line) ==
    IF ~r.ok THEN r
    ELSE IF r.v.t = "obj"
         THEN [r EXCEPT !.v = IF k \in DOMAIN r.v.f THEN r.v.f[k] ELSE JNull]
         ELSE Raise(Exc("AttributeError", "get", line), r.n)

\* A wrong guard: an envelope counts as lacking data only when it carries errors.
HasDataUnlessErrors(d, line) ==
    LET r == HasKey(d, "errors", line)
    IN  IF r.ok THEN [r EXCEPT !.v = JBool(~r.v.b)] ELSE r

\* 'data' in data: the guard of both projectors is its negation (lines 95, 222).
HasData(d, line) == HasKey(d, "data", line)

(***************************************************************************)
(* HEBGraphQLClient.process_stores                                         *)
(***************************************************************************)
\* The body of the loop over stores_data, for one store_info.
StoreItem(s0, store_info) ==
    LET si == Ok(store_info)
        s1 == Emit(s0, "--------------------------------------------------", <<>>)
        store == Idx(si, "store", 104)
        s2 == Eval(s1, store)
        st == Ok(store.v)
        s3 == Emit(s2, "Store", <<Idx(st, "name", 105), Idx(st, "storeNumber", 105)>>)
        address == Idx(st, "address", 107)
        s4 == Eval(s3, address)
        ad == Ok(address.v)
        s5 == Emit(s4, "Address", <<Idx(ad, "streetAddress", 108), Idx(ad, "locality", 108),
                                    Idx(ad, "region", 108), Idx(ad, "postalCode", 108)>>)
        s6 == Emit(s5, "Distance", <<Idx(si, "distanceMiles", 110)>>)
        slot == PyAnd(Idx(si, "nextAvailableTimeslot", 112),
                      Idx(Idx(si, "nextAvailableTimeslot", 112), "timeslot", 112))
        s7 == Eval(s6, slot)
    IN  IF Taken(s7, slot)
        THEN Emit(s7, "Next Available Timeslot",
                  <<Idx(Idx(si, "nextAvailableTimeslot", 113), "timeslot", 113)>>)
        ELSE Emit(s7, "Next Available Timeslot", <<Ok(JNull)>>)

RECURSIVE StoreLoop(_, _, _)
StoreLoop(s, items, i) ==
    IF i > Len(items) \/ Halted(s) THEN s
    ELSE StoreLoop(StoreItem(s, items[i]), items, i + 1)

\* process_stores(data): the run it makes.
process_stores(data) ==
    LET d == Ok(data)
        hasData == HasData(d, 95)
        s1 == Eval(Start, hasData)
    IN  IF ~Halted(s1) /\ ~Truthy(hasData.v)
        THEN Return(Emit(s1, "No data found in the response", <<>>))
        ELSE LET stores_data == Idx(Idx(Idx(d, "data", 99), "searchStoresByAddress", 99),
                                    "stores", 99)
                 s2 == Eval(s1, stores_data)
                 sd == Ok(stores_data.v)
                 s3 == Emit(s2, "Found stores", <<PyLen(sd, 100)>>)
                 items == Iter(sd, 102)
                 s4 == Eval(s3, items)
             IN  IF Halted(s4) THEN s4 ELSE StoreLoop(s4, items.v.e, 1)

(***************************************************************************)
(* HEBGraphQLClient.process_products                                       *)
(***************************************************************************)
\* Lines 242-246: the first context price of the first SKU.
ContextPrice(s0, sku) ==
    LET price_info == First(Idx(sku, "contextPrices", 242), 242)
        s1 == Eval(s0, price_info)
        pi == Ok(price_info.v)
        hasList == HasKey(pi, "listPrice", 243)
        s2 == Eval(s1, hasList)
        s3 == IF Taken(s2, hasList)
              THEN Emit(s2, "Price", <<Idx(Idx(pi, "listPrice", 244), "formattedAmount", 244)>>)
              ELSE s2
        onSale == PyAnd(Get(pi, "isOnSale", 245), HasKey(pi, "salePrice", 245))
        s4 == Eval(s3, onSale)
    IN  IF Taken(s4, onSale)
        THEN Emit(s4, "Sale Price", <<Idx(Idx(pi, "salePrice", 246), "formattedAmount", 246)>>)
        ELSE s4

\* Lines 240-246: the price of the first SKU.
SkuPrice(s0, p) ==
    LET sku == First(Idx(p, "SKUs", 240), 240)
        s1 == Eval(s0, sku)
        k == Ok(sku.v)
        hasPrices == PyAnd(HasKey(k, "contextPrices", 241),
                           LenPositive(Idx(k, "contextPrices", 241), 241))
        s2 == Eval(s1, hasPrices)
    IN  IF Taken(s2, hasPrices) THEN ContextPrice(s2, k) ELSE s2

\* The body of the loop over category_data['records'], for one product.
ProductItem(s0, product) ==
    LET p == Ok(product)
        s1 == Emit(s0, "--------------------------------------------------", <<>>)
        s2 == Emit(s1, "Name", <<Idx(p, "displayName", 234)>>)
        s3 == Emit(s2, "Brand", <<Idx(Idx(p, "brand", 235), "name", 235)>>)
        s4 == Emit(s3, "ID", <<Idx(p, "id", 236)>>)
        hasSkus == PyAnd(Idx(p, "SKUs", 239), LenPositive(Idx(p, "SKUs", 239), 239))
        s5 == Eval(s4, hasSkus)
        s6 == IF Taken(s5, hasSkus) THEN SkuPrice(s5, p) ELSE s5
        hasImages == PyAnd(HasKey(p, "productImageUrls", 249),
                           LenPositive(Idx(p, "productImageUrls", 249), 249))
        s7 == Eval(s6, hasImages)
        s8 == IF Taken(s7, hasImages)
              THEN Emit(s7, "Image URL",
                        <<Idx(First(Idx(p, "productImageUrls", 250), 250), "url", 250)>>)
              ELSE s7
        s9 == Emit(s8, "On Ad", <<Idx(p, "onAd", 252)>>)
    IN  Emit(s9, "New", <<Idx(p, "isNew", 253)>>)

RECURSIVE ProductLoop(_, _, _)
ProductLoop(s, items, i) ==
    IF i > Len(items) \/ Halted(s) THEN s
    ELSE ProductLoop(ProductItem(s, items[i]), items, i + 1)

\* A wrong heading: the page is reported without its hasMoreRecords flag.
CategoryHeadingShort(s0, cd) ==
    LET s1 == Emit(s0, "Category", <<Idx(cd, "pageTitle", 227)>>)
        s2 == Emit(s1, "Total products", <<Idx(cd, "total", 228)>>)
    IN  Emit(s2, "Products:", <<>>)

\* Lines 227-230: the heading of the category page.
CategoryHeading(s0, cd) ==
    LET s1 == Emit(s0, "Category", <<Idx(cd, "pageTitle", 227)>>)
        s2 == Emit(s1, "Total products", <<Idx(cd, "total", 228)>>)
        s3 == Emit(s2, "Has more records", <<Idx(cd, "hasMoreRecords", 229)>>)
    IN  Emit(s3, "Products:", <<>>)

\* process_products(data): the run it makes.
process_products(data) ==
    LET d == Ok(data)
        hasData == HasData(d, 222)
        s1 == Eval(Start, hasData)
    IN  IF ~Halted(s1) /\ ~Truthy(hasData.v)
        THEN Return(Emit(s1, "No data found in the response", <<>>))
        ELSE LET category_data == Idx(Idx(d, "data", 226), "browseCategory", 226)
                 s2 == Eval(s1, category_data)
                 cd == Ok(category_data.v)
                 s3 == CategoryHeading(s2, cd)
                 items == Iter(Idx(cd, "records", 232), 232)
                 s4 == Eval(s3, items)
             IN  IF Halted(s4) THEN s4 ELSE ProductLoop(s4, items.v.e, 1)

(***************************************************************************)
(* Responses.  The server's answer is an input: the sets below enumerate   *)
(* envelopes of the documented shape and envelopes that depart from it in  *)
(* one field (absent, null, empty).                                        *)
(***************************************************************************)
NoValue == [t |-> "unset"]

\* All sequences over S of length at most n.
SeqsUpTo(S, n) == UNION {[1..k -> S] : k \in 0..n}

\* Envelopes without a 'data' key.
NoDataEnvelopes ==
    { JObj(<<>>),
      ObjOf([errors |-> JList(<<ObjOf([message |-> JStr("Unauthorized")])>>)]),
      ObjOf([errors |-> JNull, extensions |-> JObj(<<>>)]),
      ObjOf([Data |-> JObj(<<>>)]) }

\* Bodies that decode to JSON but not to an object.
NonObjectBodies == { JNull, JList(<<>>) }

BaseAddress ==
    ObjOf([locality |-> JStr("Pharr"), postalCode |-> JStr("78577"),
           region |-> JStr("TX"), streetAddress |-> JStr("1300 S Cage Blvd")])

BaseStoreInner ==
    ObjOf([address |-> BaseAddress, name |-> JStr("Pharr H-E-B"),
           storeNumber |-> JNum(590), __typename |-> JStr("Store")])

BaseStore ==
    ObjOf([distanceMiles |-> JNum(2),
           nextAvailableTimeslot |-> ObjOf([timeslot |-> JStr("2025-04-18T09:00")]),
           store |-> BaseStoreInner, __typename |-> JStr("StoreSearchResult")])

\* Values of the optional nextAvailableTimeslot.
TimeslotValues ==
    { Absent, JNull, JObj(<<>>), ObjOf([timeslot |-> JNull]),
      ObjOf([timeslot |-> JStr("2025-04-18T09:00")]) }

\* Store items: the documented item and its one-field departures.
StoreItems ==
    { With(BaseStore, "nextAvailableTimeslot", v) : v \in TimeslotValues }
    \cup { With(BaseStore, "store", With(BaseStoreInner, "name", v)) : v \in {Absent, JNull} }
    \cup { With(BaseStore, "store", With(BaseStoreInner, "storeNumber", v)) : v \in {Absent, JNull} }
    \cup { With(BaseStore, "store", v) : v \in {Absent, JNull} }
    \cup { With(BaseStore, "store", With(BaseStoreInner, "address", JNull)),
           With(BaseStore, "distanceMiles", Absent) }

StoreEnvelope(stores) ==
    ObjOf([data |-> ObjOf([searchStoresByAddress |->
                             ObjOf([stores |-> stores, __typename |-> JStr("StoreSearchResults")])])])

StoreEnvelopesOver(items, n) ==
    { StoreEnvelope(JList(l)) : l \in SeqsUpTo(items, n) }
    \cup { StoreEnvelope(JNull), StoreEnvelope(Absent),
           ObjOf([data |-> JNull]),
           ObjOf([data |-> ObjOf([searchStoresByAddress |-> JNull])]) }
    \cup NoDataEnvelopes \cup NonObjectBodies

StoreEnvelopes == StoreEnvelopesOver(StoreItems, MaxRecords)

BaseContextPrice ==
    ObjOf([context |-> JStr("CURBSIDE"), isOnSale |-> JBool(FALSE),
           listPrice |-> ObjOf([unit |-> JStr("each"), formattedAmount |-> JStr("$3.98")]),
           salePrice |-> ObjOf([formattedAmount |-> JStr("$3.98")])])

\* Context prices: isOnSale and salePrice in every combination.
ContextPrices ==
    { With(With(BaseContextPrice, "isOnSale", o), "salePrice", p) :
        o \in {Absent, JNull, JBool(FALSE), JBool(TRUE)},
        p \in {Absent, JNull, ObjOf([formattedAmount |-> JNull]),
               ObjOf([formattedAmount |-> JStr("$2.50")])} }
    \cup { With(BaseContextPrice, "listPrice", Absent) }

BaseSku ==
    ObjOf([id |-> JStr("4011"), contextPrices |-> JList(<<BaseContextPrice>>),
           productAvailability |-> JList(<<JStr("IN_STORE")>>)])

\* Values of the SKUs list of a product.
SkuLists ==
    { JList(<<With(BaseSku, "contextPrices", JList(<<c>>))>>) : c \in ContextPrices }
    \cup { JList(<<With(BaseSku, "contextPrices", v)>>) : v \in {Absent, JNull, JList(<<>>)} }
    \cup { JNull, JList(<<>>) }

BaseImage == ObjOf([size |-> JStr("SMALL"), url |-> JStr("https://images.heb.com/1.jpg")])

\* Values of the optional productImageUrls.
ImageValues == { Absent, JNull, JList(<<>>), JList(<<BaseImage>>) }

BaseProduct ==
    ObjOf([id |-> JStr("325173"), displayName |-> JStr("Fresh Bananas"),
           brand |-> ObjOf([name |-> JStr("H-E-B"), isOwnBrand |-> JBool(TRUE)]),
           productImageUrls |-> JList(<<BaseImage>>),
           onAd |-> JBool(FALSE), isNew |-> JBool(FALSE),
           SKUs |-> JList(<<BaseSku>>)])

\* Product records: the documented record and its one-field departures.
ProductItems ==
    { With(BaseProduct, "SKUs", v) : v \in SkuLists }
    \cup { With(BaseProduct, "productImageUrls", v) : v \in ImageValues }
    \cup { With(BaseProduct, "displayName", Absent), With(BaseProduct, "brand", JNull),
           With(BaseProduct, "isNew", Absent) }

BaseCategory ==
    ObjOf([pageTitle |-> JStr("Fruit"), total |-> JNum(2), hasMoreRecords |-> JBool(FALSE),
           nextCursor |-> JNull, previousCursor |-> JNull, records |-> JList(<<>>)])

\* Category pages without their records: the documented page, a page that has
\* more records and cursors, and pages lacking a heading field.
CategoryPages ==
    { BaseCategory,
      With(With(With(BaseCategory, "hasMoreRecords", JBool(TRUE)), "nextCursor", JStr("c2")),
           "previousCursor", JStr("c0")),
      With(BaseCategory, "pageTitle", Absent), With(BaseCategory, "pageTitle", JNull),
      With(BaseCategory, "total", Absent), With(BaseCategory, "hasMoreRecords", Absent) }

CategoryEnvelope(page) == ObjOf([data |-> ObjOf([browseCategory |-> page])])

CategoryEnvelopesOver(items, n) ==
    { CategoryEnvelope(With(BaseCategory, "records", JList(l))) : l \in SeqsUpTo(items, n) }
    \cup { CategoryEnvelope(With(c, "records", JList(l))) :
             c \in CategoryPages, l \in {<<>>, <<BaseProduct>>} }
    \cup { CategoryEnvelope(With(BaseCategory, "records", v)) : v \in {Absent, JNull} }
    \cup { CategoryEnvelope(JNull), ObjOf([data |-> JNull]) }
    \cup NoDataEnvelopes \cup NonObjectBodies

CategoryEnvelopes == CategoryEnvelopesOver(ProductItems, MaxRecords)

(***************************************************************************)
(* Query construction: the template, % formatting, json.dumps of the       *)
(* channel list, and " ".join(query.split()).                              *)
(***************************************************************************)
Ch(s, i) == SubSeq(s, i, i)

\* The characters str.split() treats as separators.
IsSpace(c) == c \in {" ", "\t", "\n", "\r", "\f"}

Min(S) == CHOOSE x \in S : \A y \in S : x <= y

\* json.dumps of a string: quoted, with the escapes of the characters in use.
RECURSIVE JsonEscape(_)
JsonEscape(s) ==
    IF s = "" THEN ""
    ELSE LET c == Ch(s, 1)
             e == CASE c = "\"" -> "\\\""
                    [] c = "\\" -> "\\\\"
                    [] c = "\n" -> "\\n"
                    [] c = "\t" -> "\\t"
                    [] c = "\r" -> "\\r"
                    [] c = "\f" -> "\\f"
                    [] OTHER    -> c
         IN  e \o JsonEscape(SubSeq(s, 2, Len(s)))

\* sep.join(words)
RECURSIVE Join(_, _)
Join(sep, words) ==
    IF Len(words) = 0 THEN ""
    ELSE IF Len(words) = 1 THEN words[1]
    ELSE words[1] \o sep \o Join(sep, Tail(words))

\* json.dumps(fulfillment_channels), a list of strings.
json_dumps(channels) ==
    "[" \o Join(", ", [i \in DOMAIN channels |-> "\"" \o JsonEscape(channels[i]) \o "\""]) \o "]"

\* template % vals: each %s / %d takes the next value.
RECURSIVE Format(_, _)
Format(template, vals) ==
    LET marks == {i \in 1..(Len(template) - 1) : Ch(template, i) = "%"}
    IN  IF marks = {} \/ Len(vals) = 0 THEN template
        ELSE LET i == Min(marks)
             IN  SubSeq(template, 1, i - 1) \o PyStr(Head(vals))
                 \o Format(SubSeq(template, i + 2, Len(template)), Tail(vals))

\* The words of s from position i on: maximal runs of non-separator characters.
RECURSIVE WordsFrom(_, _)
WordsFrom(s, i) ==
    LET starts == {j \in i..Len(s) : ~IsSpace(Ch(s, j))}
    IN  IF starts = {} THEN <<>>
        ELSE LET a == Min(starts)
                 stops == {j \in a..Len(s) : IsSpace(Ch(s, j))}
                 b == IF stops = {} THEN Len(s) ELSE Min(stops) - 1
             IN  <<SubSeq(s, a, b)>> \o WordsFrom(s, b + 1)

\* s.split()
Split(s) == WordsFrom(s, 1)

\* " ".join(query.split())                                 (lines 71 and 198)
Compact(query) == Join(" ", Split(query))

StoreSearchTemplate ==
    "\n"
    \o "        query StoreSearch {\n"
    \o "          searchStoresByAddress(\n"
    \o "            address: \"%s\"\n"
    \o "            radiusMiles: %d\n"
    \o "            fulfillmentChannels: %s\n"
    \o "          ) {\n"
    \o "            stores {\n"
    \o "              distanceMiles\n"
    \o "              nextAvailableTimeslot {\n"
    \o "                timeslot\n"
    \o "              }\n"
    \o "              store {\n"
    \o "                address {\n"
    \o "                  locality\n"
    \o "                  postalCode\n"
    \o "                  region\n"
    \o "                  streetAddress\n"
    \o "                }\n"
    \o "                name\n"
    \o "                storeNumber\n"
    \o "                __typename\n"
    \o "              }\n"
    \o "              __typename\n"
    \o "            }\n"
    \o "            __typename\n"
    \o "          }\n"
    \o "        }\n"
    \o "        "

BrowseCategoryTemplate ==
    "\n"
    \o "        query {\n"
    \o "          browseCategory(\n"
    \o "            categoryId: \"%s\"\n"
    \o "            storeId: %d\n"
    \o "            shoppingContext: %s\n"
    \o "            limit: %d\n"
    \o "          ) {\n"
    \o "            pageTitle\n"
    \o "            records {\n"
    \o "              id\n"
    \o "              displayName\n"
    \o "              minimumOrderQuantity\n"
    \o "              maximumOrderQuantity\n"
    \o "              productImageUrls {\n"
    \o "                size\n"
    \o "                url\n"
    \o "              }\n"
    \o "              bestAvailable\n"
    \o "              onAd\n"
    \o "              isNew\n"
    \o "              isComboLoco\n"
    \o "              deal\n"
    \o "              pricedByWeight\n"
    \o "              brand {\n"
    \o "                name\n"
    \o "                isOwnBrand\n"
    \o "              }\n"
    \o "              SKUs {\n"
    \o "                id\n"
    \o "                contextPrices {\n"
    \o "                  context\n"
    \o "                  isOnSale\n"
    \o "                  unitListPrice {\n"
    \o "                    unit\n"
    \o "                    formattedAmount\n"
    \o "                  }\n"
    \o "                  priceType\n"
    \o "                  listPrice {\n"
    \o "                    unit\n"
    \o "                    formattedAmount\n"
    \o "                  }\n"
    \o "                  salePrice {\n"
    \o "                    formattedAmount\n"
    \o "                  }\n"
    \o "                }\n"
    \o "                productAvailability\n"
    \o "                skuPrice {\n"
    \o "                  listPrice {\n"
    \o "                    displayName\n"
    \o "                  }\n"
    \o "                }\n"
    \o "              }\n"
    \o "            }\n"
    \o "            total\n"
    \o "            hasMoreRecords\n"
    \o "            nextCursor\n"
    \o "            previousCursor\n"
    \o "          }\n"
    \o "        }\n"
    \o "        "

\* Lines 40-71: the query search_stores_by_address sends.
StoreSearchQuery(address, radius_miles, fulfillment_channels) ==
    Compact(Format(StoreSearchTemplate,
                   <<JStr(address), JNum(radius_miles), JStr(json_dumps(fulfillment_channels))>>))

\* Lines 135-198: the query browse_category sends.
BrowseCategoryQuery(category_id, store_id, shopping_context, limit) ==
    Compact(Format(BrowseCategoryTemplate,
                   <<JStr(category_id), JNum(store_id), JStr(shopping_context), JNum(limit)>>))

\* self.url
Url == "https://www.heb.com/graphql"

\* The payload of the POST.
Payload(query) == [url |-> Url, json |-> [query |-> query, variables |-> <<>>]]

(***************************************************************************)
(* The transport.  requests.post either raises (no connection) or returns  *)
(* a response; a response has a status code, a text and, when the text is  *)
(* JSON, the value response.json() decodes (NoValue: json() raises).  The  *)
(* text of a decoded envelope is read by no code path and is abbreviated.  *)
(***************************************************************************)
Response(status, text, json) == [status_code |-> status, text |-> text, json |-> json]

\* Bodies of responses that are not envelopes of the API.
ErrorBodies ==
    { [text |-> "Internal Server Error", json |-> NoValue],
      [text |-> "{}", json |-> JObj(<<>>)] }

Statuses == {200, 201, 403, 500}

ResponsesOver(envelopes) ==
    { Response(st, b.text, b.json) : st \in Statuses, b \in ErrorBodies }
    \cup { Response(200, "{...}", e) : e \in envelopes }

\* A wrong test: every 2xx status counts as success.
StatusOkAny2xx(status) == status \in 200..299

\* response.status_code == 200                              (lines 83 and 210)
StatusOk(status) == status = 200

\* Lines 83-86 / 210-213: what the call does with the response.  The result is
\* the envelope returned, or the exception raised.
Receive(r, jsonLine, raiseLine) ==
    IF StatusOk(r.status_code)
    THEN IF r.json = NoValue
         THEN Raise(Exc("JSONDecodeError", r.text, jsonLine), 0)
         ELSE Ok(r.json)
    ELSE Raise(Exc("Exception",
                   "Request failed with status code " \o ToString(r.status_code)
                       \o ": " \o r.text,
                   raiseLine), 0)

\* Envelopes the server answers with in a run of the client or of main.
MainProductItems ==
    { BaseProduct,
      With(BaseProduct, "displayName", Absent),
      With(BaseProduct, "productImageUrls", JNull),
      With(BaseProduct, "SKUs",
           JList(<<With(BaseSku, "contextPrices",
                        JList(<<With(BaseContextPrice, "isOnSale", JBool(TRUE))>>))>>)) }

MainStoreItems ==
    { BaseStore,
      With(BaseStore, "nextAvailableTimeslot", JNull),
      With(BaseStore, "store", With(BaseStoreInner, "name", Absent)) }

CategoryResponses == ResponsesOver(CategoryEnvelopesOver(MainProductItems, MaxMainItems))
StoreResponses == ResponsesOver(StoreEnvelopesOver(MainStoreItems, MaxMainItems))

(***************************************************************************)
(* The steps of main and of the direct calls of the client's methods.      *)
(***************************************************************************)
\* Where control goes after a step: on in main, back to a direct caller.
After(next) == IF entry = "main" THEN next ELSE "returned"
OnRaise == IF entry = "main" THEN "except" ELSE "raised"

\* A wrong step: a page that has more records makes the client fetch again.
ProcessProductsPaging ==
    /\ pc = "process_products"
    /\ LET run == process_products(category_response)
           more == Idx(Idx(Idx(Ok(category_response), "data", 226), "browseCategory", 226),
                       "hasMoreRecords", 229)
       IN  /\ stdout' = stdout \o run.out
           /\ reads' = reads + run.reads
           /\ exc' = run.exc
           /\ pc' = IF run.exc # NoExc THEN OnRaise
                    ELSE IF more.ok /\ Truthy(more.v) THEN After("browse_category")
                    ELSE After("save_category")
    /\ UNCHANGED <<entry, args, posts, responses, category_response, store_response, files>>

\* client.process_products(category_response)            (main, line 268)
ProcessProducts ==
    /\ pc = "process_products"
    /\ LET run == process_products(category_response)
       IN  /\ stdout' = stdout \o run.out
           /\ reads' = reads + run.reads
           /\ exc' = run.exc
           /\ pc' = IF run.exc # NoExc THEN OnRaise ELSE After("save_category")
    /\ UNCHANGED <<entry, args, posts, responses, category_response, store_response, files>>

\* client.process_stores(store_response)                 (main, line 281)
ProcessStores ==
    /\ pc = "process_stores"
    /\ LET run == process_stores(store_response)
       IN  /\ stdout' = stdout \o run.out
           /\ reads' = reads + run.reads
           /\ exc' = run.exc
           /\ pc' = IF run.exc # NoExc THEN OnRaise ELSE After("save_stores")
    /\ UNCHANGED <<entry, args, posts, responses, category_response, store_response, files>>

\* The default keyword arguments                  (lines 22-24 and 118-121)
DefaultArgs ==
    [address |-> "1803 West Bronze St, Pharr, TX", radius_miles |-> 25,
     fulfillment_channels |-> <<>>,
     category_id |-> "490113", store_id |-> 590,
     shopping_context |-> "CURBSIDE_PICKUP", limit |-> 15]

Line(label) == [label |-> label, text |-> <<>>]

\* client.browse_category(...)                  (lines 134-213; main, 263-265)
BrowseCategory ==
    /\ pc = "browse_category"
    /\ posts' = Append(posts, Payload(BrowseCategoryQuery(args.category_id, args.store_id,
                                                          args.shopping_context, args.limit)))
    /\ stdout' = IF entry = "main"
                 THEN stdout \o <<Line("===== BROWSING CATEGORY ====="),
                                  Line("Fetching category products...")>>
                 ELSE stdout
    /\ \/ /\ exc' = Exc("ConnectionError", Url, 207)
          /\ pc' = OnRaise
          /\ UNCHANGED <<responses, category_response>>
       \/ \E r \in CategoryResponses :
            LET got == Receive(r, 211, 213)
            IN  /\ responses' = Append(responses, r)
                /\ exc' = got.exc
                /\ category_response' = IF got.ok THEN got.v ELSE category_response
                /\ pc' = IF got.ok THEN After("process_products") ELSE OnRaise
    /\ UNCHANGED <<entry, args, store_response, files, reads>>

\* client.search_stores_by_address(...)          (lines 36-86; main, 276-278)
SearchStoresByAddress ==
    /\ pc = "search_stores_by_address"
    /\ posts' = Append(posts, Payload(StoreSearchQuery(args.address, args.radius_miles,
                                                       args.fulfillment_channels)))
    /\ stdout' = IF entry = "main"
                 THEN stdout \o <<Line("===== SEARCHING STORES ====="),
                                  Line("Searching for stores near '1803 West Bronze St, Pharr, TX'...")>>
                 ELSE stdout
    /\ \/ /\ exc' = Exc("ConnectionError", Url, 80)
          /\ pc' = OnRaise
          /\ UNCHANGED <<responses, store_response>>
       \/ \E r \in StoreResponses :
            LET got == Receive(r, 84, 86)
            IN  /\ responses' = Append(responses, r)
                /\ exc' = got.exc
                /\ store_response' = IF got.ok THEN got.v ELSE store_response
                /\ pc' = IF got.ok THEN After("process_stores") ELSE OnRaise
    /\ UNCHANGED <<entry, args, category_response, files, reads>>

\* files with document doc written under name.
Written(name, doc) ==
    [f \in DOMAIN files \cup {name} |-> IF f = name THEN doc ELSE files[f]]

\* Lines 271-273: the category response is saved; open() may fail.
SaveCategory ==
    /\ pc = "save_category"
    /\ \/ /\ files' = Written("heb_category_response.json", category_response)
          /\ stdout' = Append(stdout, Line("Raw category response saved to heb_category_response.json"))
          /\ pc' = "search_stores_by_address"
          /\ UNCHANGED exc
       \/ /\ exc' = Exc("OSError", "heb_category_response.json", 271)
          /\ pc' = "except"
          /\ UNCHANGED <<files, stdout>>
    /\ UNCHANGED <<entry, args, posts, responses, category_response, store_response, reads>>

\* Lines 284-286: the stores response is saved; open() may fail.
SaveStores ==
    /\ pc = "save_stores"
    /\ \/ /\ files' = Written("heb_stores_response.json", store_response)
          /\ stdout' = Append(stdout, Line("Raw stores response saved to heb_stores_response.json"))
          /\ pc' = "done"
          /\ UNCHANGED exc
       \/ /\ exc' = Exc("OSError", "heb_stores_response.json", 284)
          /\ pc' = "except"
          /\ UNCHANGED <<files, stdout>>
    /\ UNCHANGED <<entry, args, posts, responses, category_response, store_response, reads>>

\* A wrong handler: the error is reported and the run goes on to the next phase.
ReportErrorAndGoOn ==
    /\ pc = "except"
    /\ stdout' = Append(stdout, [label |-> "Error", text |-> <<exc.arg>>])
    /\ pc' = IF Len(posts) = 1 THEN "search_stores_by_address" ELSE "done"
    /\ UNCHANGED <<entry, args, posts, responses, category_response, store_response,
                   files, reads, exc>>

\* Lines 288-289: except Exception as e: print(f"Error: {e}")
ReportError ==
    /\ pc = "except"
    /\ stdout' = Append(stdout, [label |-> "Error", text |-> <<exc.arg>>])
    /\ pc' = "done"
    /\ UNCHANGED <<entry, args, posts, responses, category_response, store_response,
                   files, reads, exc>>

\* main(): a fresh client, nothing sent, printed or written.
Init ==
    /\ entry = "main"
    /\ pc = "browse_category"
    /\ args = DefaultArgs
    /\ posts = <<>>
    /\ responses = <<>>
    /\ category_response = NoValue
    /\ store_response = NoValue
    /\ stdout = <<>>
    /\ files = <<>>
    /\ reads = 0
    /\ exc = NoExc

Next ==
    \/ BrowseCategory
    \/ ProcessProducts
    \/ SaveCategory
    \/ SearchStoresByAddress
    \/ ProcessStores
    \/ SaveStores
    \/ ReportError

Spec == Init /\ [][Next]_vars

\* A caller hands an envelope to one of the two projectors.
InitProject ==
    /\ entry \in {"process_products", "process_stores"}
    /\ pc = entry
    /\ args = DefaultArgs
    /\ posts = <<>>
    /\ responses = <<>>
    /\ category_response \in IF entry = "process_products" THEN CategoryEnvelopes ELSE {NoValue}
    /\ store_response \in IF entry = "process_stores" THEN StoreEnvelopes ELSE {NoValue}
    /\ stdout = <<>>
    /\ files = <<>>
    /\ reads = 0
    /\ exc = NoExc

NextProject == ProcessProducts \/ ProcessStores

SpecProject == InitProject /\ [][NextProject]_vars

(***************************************************************************)
(* Direct calls of the two client methods, with arguments of the caller's  *)
(* choice.                                                                 *)
(***************************************************************************)
Addresses ==
    { "1803 West Bronze St, Pharr, TX", "12  Oak St", "Apt 4\nAustin", "Suite\t9" }
Radii == {25, 5}
ChannelNames == {"CURBSIDE_PICKUP", "ALCOHOL  DELIVERY"}
CategoryIds == {"490113", "4901  13"}
StoreIds == {590, 92}
ShoppingContexts == {"CURBSIDE_PICKUP", "EXPLORE_MY_STORE"}
Limits == {15, 1}

SearchArgs ==
    { [DefaultArgs EXCEPT !.address = a, !.radius_miles = r, !.fulfillment_channels = c] :
        a \in Addresses, r \in Radii, c \in SeqsUpTo(ChannelNames, MaxChannels) }

BrowseArgs ==
    { [DefaultArgs EXCEPT !.category_id = c, !.store_id = st, !.shopping_context = sc,
                          !.limit = l] :
        c \in CategoryIds, st \in StoreIds, sc \in ShoppingContexts, l \in Limits }

InitClient ==
    /\ entry \in {"browse_category", "search_stores_by_address"}
    /\ pc = entry
    /\ args \in IF entry = "browse_category" THEN BrowseArgs ELSE SearchArgs
    /\ posts = <<>>
    /\ responses = <<>>
    /\ category_response = NoValue
    /\ store_response = NoValue
    /\ stdout = <<>>
    /\ files = <<>>
    /\ reads = 0
    /\ exc = NoExc

NextClient == BrowseCategory \/ SearchStoresByAddress

SpecClient == InitClient /\ [][NextClient]_vars

(***************************************************************************)
(* Vocabulary of the properties.                                           *)
(***************************************************************************)
\* s occurs in q as a substring.
Contains(q, s) == \E i \in 1..(Len(q) - Len(s) + 1) : SubSeq(q, i, i + Len(s) - 1) = s

\* The number of printed lines with the given label.
Printed(label) == Cardinality({i \in DOMAIN stdout : stdout[i].label = label})

\* The invoked method has run (direct calls).
Ran == pc \in {"returned", "raised"}

\* The envelope handed to the projector that was invoked.
Envelope == IF entry = "process_products" THEN category_response ELSE store_response

HasDataKey(e) == e.t = "obj" /\ "data" \in DOMAIN e.f

\* data.browseCategory and data.searchStoresByAddress.stores of an envelope.
PageOf(e) == Idx(Idx(Ok(e), "data", 0), "browseCategory", 0)
RecordsOf(e) == Idx(PageOf(e), "records", 0)
StoresOf(e) == Idx(Idx(Idx(Ok(e), "data", 0), "searchStoresByAddress", 0), "stores", 0)

\* The elements of a list-valued result, <<>> when it is no list.
Elements(r) == IF r.ok /\ r.v.t = "list" THEN r.v.e ELSE <<>>
IsList(r) == r.ok /\ r.v.t = "list"

(***************************************************************************)
(* C1.  A non-200 response makes search_stores_by_address and              *)
(* browse_category raise an error whose message carries the status code    *)
(* and the response body; no envelope is returned and exactly one POST was *)
(* issued by the call (no retry).                                          *)
(***************************************************************************)
C1_Non200Raises ==
    (Len(responses) = 1 /\ responses[1].status_code # 200) =>
        /\ pc = "raised"
        /\ exc.type = "Exception"
        /\ Contains(exc.arg, ToString(responses[1].status_code))
        /\ Contains(exc.arg, responses[1].text)
        /\ category_response = NoValue
        /\ store_response = NoValue
        /\ Len(posts) = 1

C1_Witness ==
    /\ entry = "search_stores_by_address"
    /\ pc = "raised"
    /\ Len(responses) = 1
    /\ responses[1].status_code = 500
    /\ responses[1].text = "Internal Server Error"
    /\ Len(posts) = 1

(***************************************************************************)
(* C2.  On an envelope (a JSON object) without a 'data' key, process_stores *)
(* and process_products end in the NoData outcome: they return without an  *)
(* exception, evaluate no subscript, and print the no-data message and no  *)
(* store or product line.                                                  *)
(***************************************************************************)
C2_NoDataOutcome ==
    (/\ entry \in {"process_products", "process_stores"}
     /\ Ran
     /\ Envelope.t = "obj"
     /\ ~HasDataKey(Envelope)) =>
        /\ pc = "returned"
        /\ exc = NoExc
        /\ reads = 0
        /\ stdout = <<Line("No data found in the response")>>

C2_Witness ==
    /\ entry = "process_stores"
    /\ pc = "returned"
    /\ store_response = JObj(<<>>)
    /\ stdout = <<Line("No data found in the response")>>

(***************************************************************************)
(* C3.  process_products prints a sale price for a record exactly when the *)
(* first SKU's first context price has isOnSale true and a sale price is   *)
(* present; otherwise the sale price is left out, is never printed as      *)
(* None, and the sale-price step raises nothing.                           *)
(***************************************************************************)
\* The first context price of the first SKU of product p.
FirstPrice(p) == First(Idx(First(Idx(Ok(p), "SKUs", 0), 0), "contextPrices", 0), 0)

\* isOnSale is true and a sale price (an amount) is present.
SaleDue(p) ==
    LET pi == FirstPrice(p)
        amount == Idx(Idx(pi, "salePrice", 0), "formattedAmount", 0)
    IN  /\ pi.ok
        /\ Get(pi, "isOnSale", 0).ok
        /\ Get(pi, "isOnSale", 0).v = JBool(TRUE)
        /\ amount.ok
        /\ amount.v.t = "str"

C3_SalePriceRule ==
    (entry = "process_products" /\ Ran) =>
        LET records == Elements(RecordsOf(category_response))
        IN  /\ exc.line \notin {245, 246}
            /\ \A i \in DOMAIN stdout :
                 stdout[i].label = "Sale Price" => stdout[i].text # <<"None">>
            /\ exc = NoExc =>
                 Printed("Sale Price") = Cardinality({i \in DOMAIN records : SaleDue(records[i])})

(***************************************************************************)
(* C4.  On an envelope with a 'data' key whose records are the documented  *)
(* ones except that an optional field (nextAvailableTimeslot of a store    *)
(* item, contextPrices of a SKU, productImageUrls of a product) is present *)
(* with a value, null, or absent, process_stores and process_products      *)
(* complete without raising.                                               *)
(***************************************************************************)
OptionalStoreItems ==
    { With(BaseStore, "nextAvailableTimeslot", v) :
        v \in {Absent, JNull, ObjOf([timeslot |-> JStr("2025-04-18T09:00")])} }

OptionalProductItems ==
    { With(BaseProduct, "productImageUrls", v) : v \in {Absent, JNull, JList(<<BaseImage>>)} }
    \cup { With(BaseProduct, "SKUs", JList(<<With(BaseSku, "contextPrices", v)>>)) :
             v \in {Absent, JNull, JList(<<BaseContextPrice>>)} }

\* The envelope is well formed and its items vary in the optional fields only.
OnlyOptionalVaries(e) ==
    IF entry = "process_stores"
    THEN /\ IsList(StoresOf(e))
         /\ \A i \in DOMAIN Elements(StoresOf(e)) : Elements(StoresOf(e))[i] \in OptionalStoreItems
    ELSE /\ IsList(RecordsOf(e))
         /\ PageOf(e).v = With(BaseCategory, "records", RecordsOf(e).v)
         /\ \A i \in DOMAIN Elements(RecordsOf(e)) : Elements(RecordsOf(e))[i] \in OptionalProductItems

C4_OptionalTolerated ==
    (entry \in {"process_products", "process_stores"} /\ Ran /\ OnlyOptionalVaries(Envelope)) =>
        /\ pc = "returned"
        /\ exc = NoExc

(***************************************************************************)
(* C5.  The query sent by search_stores_by_address and browse_category is  *)
(* a single line without two consecutive whitespace characters, and every  *)
(* supplied parameter value occurs in it verbatim, string values with runs *)
(* of spaces, tabs or newlines included.                                   *)
(***************************************************************************)
SingleSpaced(q) ==
    /\ \A i \in 1..Len(q) : Ch(q, i) \notin {"\n", "\r"}
    /\ \A i \in 1..(Len(q) - 1) : ~(IsSpace(Ch(q, i)) /\ IsSpace(Ch(q, i + 1)))

C5_QueryVerbatim ==
    (Len(posts) = 1) =>
        LET q == posts[1].json.query
        IN  /\ SingleSpaced(q)
            /\ entry = "search_stores_by_address" =>
                 /\ Contains(q, args.address)
                 /\ Contains(q, ToString(args.radius_miles))
                 /\ \A i \in DOMAIN args.fulfillment_channels :
                      Contains(q, args.fulfillment_channels[i])
            /\ entry = "browse_category" =>
                 /\ Contains(q, args.category_id)
                 /\ Contains(q, ToString(args.store_id))
                 /\ Contains(q, args.shopping_context)
                 /\ Contains(q, ToString(args.limit))

(***************************************************************************)
(* C6.  In a run of main every failure is caught and reported as a single  *)
(* message, and there is no partial success: when an error was reported,   *)
(* each response has had all of its records displayed or none of them.     *)
(***************************************************************************)
C6_NoPartialSuccess ==
    (pc = "done" /\ exc # NoExc) =>
        /\ Printed("Error") = 1
        /\ \/ Printed("Name") = 0
           \/ Printed("New") = Len(Elements(RecordsOf(category_response)))
        /\ \/ Printed("Store") = 0
           \/ Printed("Next Available Timeslot") = Len(Elements(StoresOf(store_response)))

(***************************************************************************)
(* C7.  On an envelope whose data.browseCategory.records is the empty list *)
(* process_products completes without error, reporting total and           *)
(* hasMoreRecords and no product record.                                   *)
(***************************************************************************)
EmptyRecords(e) == RecordsOf(e).ok /\ RecordsOf(e).v = JList(<<>>)

EmptyPageReported ==
    /\ pc = "returned"
    /\ exc = NoExc
    /\ Printed("Total products") = 1
    /\ Printed("Has more records") = 1
    /\ Printed("Name") = 0

\* The claim as stated: for every such envelope.
C7_EmptyRecordsAnyPage ==
    (entry = "process_products" /\ Ran /\ EmptyRecords(category_response)) => EmptyPageReported

\* C7, amended: for every such envelope whose browseCategory object carries the
\* keys pageTitle, total and hasMoreRecords (with any value, null included),
\* process_products completes without error and prints the heading with the
\* page's title, total and hasMoreRecords and no product record.
HeadingKeys == {"pageTitle", "total", "hasMoreRecords"}

C7_EmptyRecordsWithHeading ==
    (/\ entry = "process_products"
     /\ Ran
     /\ EmptyRecords(category_response)
     /\ HeadingKeys \subseteq DOMAIN PageOf(category_response).v.f) =>
        LET page == PageOf(category_response).v
        IN  /\ EmptyPageReported
            /\ stdout = << [label |-> "Category", text |-> <<PyStr(page.f["pageTitle"])>>],
                           [label |-> "Total products", text |-> <<PyStr(page.f["total"])>>],
                           [label |-> "Has more records",
                            text |-> <<PyStr(page.f["hasMoreRecords"])>>],
                           Line("Products:") >>

C7_Witness ==
    /\ entry = "process_products"
    /\ pc = "returned"
    /\ category_response = CategoryEnvelope(BaseCategory)
    /\ Len(stdout) = 4

(***************************************************************************)
(* C8.  No follow-up request is ever issued, whatever hasMoreRecords,      *)
(* nextCursor and previousCursor are: processing a response sends no POST, *)
(* each operation call sends exactly one, and a run of main sends at most  *)
(* two, one browse_category and one search_stores_by_address.              *)
(***************************************************************************)
Sent(operation) ==
    Cardinality({i \in DOMAIN posts : Contains(posts[i].json.query, operation)})

C8_NoFollowUp ==
    [][ /\ pc \in {"process_products", "process_stores", "save_category", "save_stores",
                   "except"} => posts' = posts
        /\ pc \in {"browse_category", "search_stores_by_address"} =>
             Len(posts') = Len(posts) + 1
        /\ Len(posts') <= 2
        /\ Cardinality({i \in DOMAIN posts' :
                          Contains(posts'[i].json.query, "browseCategory(")}) <= 1
        /\ Cardinality({i \in DOMAIN posts' :
                          Contains(posts'[i].json.query, "searchStoresByAddress(")}) <= 1
      ]_vars

C8_Witness ==
    /\ pc = "done"
    /\ exc = NoExc
    /\ Idx(PageOf(category_response), "hasMoreRecords", 0).v = JBool(TRUE)
    /\ Idx(PageOf(category_response), "nextCursor", 0).v = JStr("c2")
    /\ Sent("browseCategory(") = 1
    /\ Sent("searchStoresByAddress(") = 1

(***************************************************************************)
(* C9.  When store.name or store.storeNumber of a store item is absent or  *)
(* null, process_stores fails with a MalformedResponse error naming the    *)
(* field's path, and a null required field is never shown in the store     *)
(* line.                                                                   *)
(***************************************************************************)
RequiredMissingItems ==
    { With(BaseStore, "store", With(BaseStoreInner, k, v)) :
        k \in {"name", "storeNumber"}, v \in {Absent, JNull} }

C9_RequiredFieldChecked ==
    (entry = "process_stores" /\ Ran /\ IsList(StoresOf(store_response))) =>
        LET stores == Elements(StoresOf(store_response))
        IN  /\ \A i \in DOMAIN stdout :
                 stdout[i].label = "Store" =>
                    \A j \in DOMAIN stdout[i].text : stdout[i].text[j] # "None"
            /\ ( /\ \A i \in DOMAIN stores : stores[i] \in OptionalStoreItems \cup RequiredMissingItems
                 /\ \E i \in DOMAIN stores : stores[i] \in RequiredMissingItems )
               => ( /\ pc = "raised"
                    /\ exc.type = "MalformedResponse"
                    /\ exc.arg \in {"store.name", "store.storeNumber"} )

(***************************************************************************)
(* C10.  A run of main is sequential and fail-fast: the store-search POST  *)
(* is issued only after the category request returned 200,                 *)
(* process_products finished without raising and the category file was     *)
(* written; each file is written only after its own request succeeded and  *)
(* its processing finished; and when a category-phase step raised, the     *)
(* store-search request is never sent and the stores file never written.   *)
(***************************************************************************)
CategoryFile == "heb_category_response.json"
StoresFile == "heb_stores_response.json"

\* The lines of run follow the n lines printed before it in stdout.
PrintedAfter(n, run) ==
    /\ run.exc = NoExc
    /\ Len(stdout) >= n + Len(run.out)
    /\ SubSeq(stdout, n + 1, n + Len(run.out)) = run.out

CategoryProcessed ==
    /\ Len(responses) >= 1
    /\ responses[1].status_code = 200
    /\ category_response = responses[1].json
    /\ PrintedAfter(2, process_products(category_response))

StoresProcessed ==
    /\ Len(responses) = 2
    /\ responses[2].status_code = 200
    /\ store_response = responses[2].json
    /\ PrintedAfter(Len(process_products(category_response).out) + 5,
                    process_stores(store_response))

C10_SequentialFailFast ==
    /\ Len(posts) >= 2 =>
         /\ CategoryProcessed
         /\ CategoryFile \in DOMAIN files
         /\ files[CategoryFile] = category_response
    /\ CategoryFile \in DOMAIN files =>
         /\ CategoryProcessed
         /\ pc \notin {"browse_category", "process_products", "save_category"}
    /\ StoresFile \in DOMAIN files =>
         /\ StoresProcessed
         /\ CategoryFile \in DOMAIN files
         /\ files[StoresFile] = store_response
         /\ pc = "done"
    /\ (exc # NoExc /\ exc.line >= 134 /\ exc.line <= 273) =>
         /\ Len(posts) = 1
         /\ StoresFile \notin DOMAIN files
         /\ store_response = NoValue
         /\ pc \in {"except", "done"}

C10_Witness ==
    /\ pc = "done"
    /\ exc = NoExc
    /\ Len(posts) = 2
    /\ DOMAIN files = {CategoryFile, StoresFile}
    /\ Len(Elements(RecordsOf(category_response))) = 2
    /\ Len(Elements(StoresOf(store_response))) = 2

====
